---- MODULE Spec2Model ----
(***************************************************************************)
(* AlbefPretrain (lavis/models/albef_models/albef_pretrain.py): the        *)
(* training-time forward pass, the masking routine and the ramp-up factor. *)
(*                                                                         *)
(* Real-valued quantities are fixed-point integers in thousandths          *)
(* (temp 0.07 is 70, momentum 0.995 is 995, alpha 0.4 is 400); a ratio is  *)
(* a pair <<numerator, denominator>>.  Tensors indexed by batch row or     *)
(* queue column are functions on 0..n-1; a 2-D token tensor of shape       *)
(* (batch, length) is flattened row-major.  An embedding is identified by  *)
(* the tag <<modality, forward call that produced it, batch row>>.         *)
(***************************************************************************)
EXTENDS Integers, Sequences, FiniteSets, TLC

\* ------------------------------------------------------------------ bounds
MaxBatch == 3
MaxQueueBatches == 2
MaxTxtLen == 3
MaskLen == 2
MaxEpoch == 3
MaxIters == 4
MaxItersPerEpoch == 3

MaxCalls == MaxQueueBatches + 1

\* ------------------------------------------------------- program constants
temp_init == 70
temp_min == 1
temp_max == 500
momentum == 995
alpha_cfg == 400
pad_token_id == 0
cls_token_id == 101
sep_token_id == 102
mask_token_id == 103
vocab_size == 30522
ignore_index == -100

VARIABLES
    batch_size,      \* image.size(0) of every batch the loader delivers
    queue_size,      \* self.queue_size
    online,          \* parameters of the four online modules of model_pairs
    teacher,         \* parameters of their momentum counterparts
    temp,            \* self.temp
    image_queue,     \* self.image_queue, by column
    text_queue,      \* self.text_queue, by column
    queue_ptr,       \* self.queue_ptr
    pc,              \* position of the running call
    calls,           \* forward calls started so far
    samples,         \* the argument of forward
    rampup,          \* what _rampup_factor returned, a ratio
    alpha,           \* forward's local alpha, a ratio
    image_feat_m,    \* teacher image features of this call
    text_feat_m,     \* teacher text features of this call
    image_feat_all,  \* image negatives pool
    text_feat_all,   \* text negatives pool
    sims,            \* the four similarity matrices: operands and divisor
    done,            \* outputs computed so far in this call
    mu_count,        \* _momentum_update invocations in this call
    enq_count,       \* _dequeue_and_enqueue invocations in this call
    neg,             \* sampled negative indices
    vl_embeddings,   \* fused examples handed to the ITM head
    itm_labels,      \* their labels
    heap,            \* token tensors by reference
    mres,            \* what mask() returned, and its local index tensors
    mask_args,       \* what mask() was called with
    result           \* what forward returned

self_vars == <<batch_size, queue_size, online, teacher, temp, image_queue,
               text_queue, queue_ptr>>
local_vars == <<samples, rampup, alpha, image_feat_m, text_feat_m, image_feat_all,
                text_feat_all, sims, done, mu_count, enq_count, neg,
                vl_embeddings, itm_labels, heap, mres, mask_args, result>>
vars == <<self_vars, pc, calls, local_vars>>

\* ----------------------------------------------------------------- helpers
Min(a, b) == IF a < b THEN a ELSE b

Rows(n) == 0 .. (n - 1)

\* torch.cat of two tensors of n and m entries along the indexed dimension
Cat(f, n, g, m) == [i \in Rows(n + m) |-> IF i < n THEN f[i] ELSE g[i - n]]

ModelPairs == {"visual_encoder", "text_encoder", "vision_proj", "text_proj"}

Pretrained == [p \in ModelPairs |->
                 CASE p = "visual_encoder" -> 1000
                   [] p = "text_encoder" -> 2000
                   [] p = "vision_proj" -> 3000
                   [] p = "text_proj" -> 4000]

\* ---------------------------------------------------------- pure functions
\* a ramp-up that forgets the cap
RampupFactorUncapped(epoch, iters, num_iters_per_epoch) ==
    <<epoch * num_iters_per_epoch + iters, 2 * num_iters_per_epoch>>

\* _rampup_factor: min(1, (epoch * N + iters) / (2 * N)) as a ratio.  Python's
\* min returns its first argument unless the second is strictly smaller.
RampupFactor(epoch, iters, num_iters_per_epoch) ==
    LET num == epoch * num_iters_per_epoch + iters
        den == 2 * num_iters_per_epoch
    IN  IF num < den THEN <<num, den>> ELSE <<1, 1>>

\* alpha = self.alpha * self._rampup_factor(...), in thousandths
EffectiveAlpha(r) == <<alpha_cfg * r[1], r[2]>>

\* a clamp that forgets the upper limit
ClampBelowOnly(x, lo, hi) == IF x < lo THEN lo ELSE x

\* Tensor.clamp_(lo, hi)
Clamp(x, lo, hi) == IF x < lo THEN lo ELSE IF x > hi THEN hi ELSE x

\* deepcopy of a module: a second parameter set with the same values
DeepCopy(params) == [p \in DOMAIN params |-> params[p]]

\* copy_params: param_m.data.copy_(param.data) for every pair
CopyParams(on, te) == [p \in DOMAIN te |-> on[p]]

\* _momentum_update: param_m = param_m * momentum + param * (1 - momentum)
MomentumUpdate(on, te) ==
    [p \in DOMAIN te |-> (te[p] * momentum + on[p] * (1000 - momentum)) \div 1000]

\* _dequeue_and_enqueue: write the batch at the pointer, advance the pointer
DequeueAndEnqueue(queue, ptr, feats, n, size) ==
    [queue |-> [c \in Rows(size) |->
                  IF c >= ptr /\ c < ptr + n THEN feats[c - ptr] ELSE queue[c]],
     ptr |-> (ptr + n) % size]

\* the tokenizer with padding="max_length", truncation=True
Tokenize(caption) ==
    LET k == Min(Len(caption), MaxTxtLen - 2)
    IN  [i \in Rows(MaxTxtLen) |->
           IF i = 0 THEN cls_token_id
           ELSE IF i <= k THEN caption[i]
           ELSE IF i = k + 1 THEN sep_token_id
           ELSE pad_token_id]

\* text.input_ids of a batch of captions, flattened row-major
TokenizeBatch(captions, n) ==
    [j \in Rows(n * MaxTxtLen) |->
       Tokenize(captions[j \div MaxTxtLen])[j % MaxTxtLen]]

\* Tensor.fill_diagonal_(0) on a square matrix given by rows
FillDiagonal0(w) == [b \in DOMAIN w |-> [j \in DOMAIN w[b] |->
                       IF j = b THEN 0 ELSE w[b][j]]]

\* a sampler that falls back to any index when no weight is positive
MultinomialZeroFallback(w) ==
    IF {j \in DOMAIN w : w[j] > 0} = {} THEN DOMAIN w
    ELSE {j \in DOMAIN w : w[j] > 0}

\* torch.multinomial(w, 1): the indices it can return; none when the weights
\* sum to zero, where it raises
Multinomial(w) == {j \in DOMAIN w : w[j] > 0}

\* an assignment without clone(): the new name refers to the same tensor
ShareTensor(h, src, dst) == [heap |-> h, ref |-> src]

\* x.clone(): a new tensor under reference dst, holding the values of src
CloneTensor(h, src, dst) == [heap |-> [h EXCEPT ![dst] = h[src]], ref |-> dst]

\* ---------------------------------------------------------------- mask()
\* lines 288-289: masked_indices is the caller's tensor, or a Bernoulli draw
DrawMask(h, miRef, bern) ==
    IF miRef = "None"
    THEN [heap |-> [h EXCEPT !["masked_indices"] = bern], ref |-> "masked_indices"]
    ELSE [heap |-> h, ref |-> miRef]

\* clearing the padding positions only
ClearPadOnly(h, idsRef, mi) ==
    [h EXCEPT ![mi] = [i \in DOMAIN h[idsRef] |->
       IF h[idsRef][i] = pad_token_id THEN FALSE ELSE h[mi][i]]]

\* lines 291-292: masked_indices[input_ids == pad / cls] = False, in place
ClearSpecial(h, idsRef, mi) ==
    LET P == DOMAIN h[idsRef]
        h1 == [h EXCEPT ![mi] = [i \in P |->
                 IF h[idsRef][i] = pad_token_id THEN FALSE ELSE h[mi][i]]]
    IN  [h1 EXCEPT ![mi] = [i \in P |->
           IF h1[idsRef][i] = cls_token_id THEN FALSE ELSE h1[mi][i]]]

\* lines 294-295: targets[~masked_indices] = -100, in place
IgnoreUnmasked(h, targetsRef, mi) ==
    IF targetsRef = "None" THEN h
    ELSE [h EXCEPT ![targetsRef] = [i \in DOMAIN h[targetsRef] |->
            IF ~h[mi][i] THEN ignore_index ELSE h[targetsRef][i]]]

\* lines 298-300
IndicesReplaced(masked, d80) == [i \in DOMAIN masked |-> d80[i] /\ masked[i]]

\* the random-word positions without "& ~indices_replaced"
IndicesRandomOverlapping(masked, replaced, d50) ==
    [i \in DOMAIN masked |-> d50[i] /\ masked[i]]

\* lines 304-308
IndicesRandom(masked, replaced, d50) ==
    [i \in DOMAIN masked |-> d50[i] /\ masked[i] /\ ~replaced[i]]

\* lines 301, 312: input_ids[where] = value[where], in place
Assign(h, ref, where, value) ==
    [h EXCEPT ![ref] = [i \in DOMAIN h[ref] |->
       IF where[i] THEN value[i] ELSE h[ref][i]]]

\* miRef = "None": masked_indices is drawn (bern); targetsRef = "None": no labels.
\* d80, d50 are the two further Bernoulli draws, rw is random_words.
Mask(h, idsRef, targetsRef, miRef, bern, d80, d50, rw) ==
    LET m0 == DrawMask(h, miRef, bern)
        mi == m0.ref
        h3 == ClearSpecial(m0.heap, idsRef, mi)
        h4 == IgnoreUnmasked(h3, targetsRef, mi)
        indices_replaced == IndicesReplaced(h4[mi], d80)
        h5 == Assign(h4, idsRef, indices_replaced,
                     [i \in DOMAIN h4[idsRef] |-> mask_token_id])
        indices_random == IndicesRandom(h5[mi], indices_replaced, d50)
        h6 == Assign(h5, idsRef, indices_random, rw)
    IN  [heap |-> h6, input_ids |-> idsRef, targets |-> targetsRef,
         masked_indices |-> mi, indices_replaced |-> indices_replaced,
         indices_random |-> indices_random]

\* ------------------------------------------------------------------ inputs
Words == {2000}

\* trained values the optimizer may leave in self.temp: below and above the
\* clamp range (the constructed 0.07 is inside it)
TempVals == {-5, 900}
ParamDeltas == {250}

\* what the loader hands to forward: a first batch of empty captions, a later
\* batch of one-word captions
ForwardSamples(n) ==
    {[epoch |-> 0, iters |-> 0, num_iters_per_epoch |-> 1,
      text_input |-> [b \in Rows(n) |-> <<>>]]}
    \cup {[epoch |-> 1, iters |-> 1, num_iters_per_epoch |-> 1,
           text_input |-> [b \in Rows(n) |-> <<w>>]] : w \in Words}

\* softmax rows of a block of similarities with m columns, as 1 where the
\* weight is positive and 0 where it underflowed to zero: positive at the true
\* pair and its two next neighbours, or at the true pair alone
SoftmaxRow(m, b, wide) ==
    [j \in Rows(m) |->
       IF j = b \/ (wide /\ (j = (b + 1) % m \/ j = (b + 2) % m)) THEN 1 ELSE 0]
SoftmaxRows(n, m) ==
    {[b \in Rows(n) |-> SoftmaxRow(m, b, b \in S)] : S \in SUBSET Rows(n)}

Refs == {"text", "input_ids", "labels", "masked_indices"}
EmptyHeap == [r \in Refs |-> <<>>]
NoMask == [heap |-> EmptyHeap, input_ids |-> "None", targets |-> "None",
           masked_indices |-> "None", indices_replaced |-> <<>>,
           indices_random |-> <<>>]
NoMaskArgs == [targets |-> "None", masked_indices |-> "None", drawn |-> <<>>]
NoSamples == [epoch |-> 0, iters |-> 0, num_iters_per_epoch |-> 1,
              text_input |-> <<>>]
NoSims == [n \in {"sim_i2t_m", "sim_t2i_m", "sim_i2t", "sim_t2i"} |->
             [rows |-> "None", cols |-> <<>>, temp |-> 0]]
NoNeg == [image |-> <<>>, text |-> <<>>]

\* the locals of a call that has not computed anything yet
FreshLocals ==
    /\ image_feat_m = <<>> /\ text_feat_m = <<>>
    /\ image_feat_all = <<>> /\ text_feat_all = <<>>
    /\ sims = NoSims /\ neg = NoNeg
    /\ vl_embeddings = <<>> /\ itm_labels = <<>>
    /\ mres = NoMask /\ mask_args = NoMaskArgs

\* the locals of forward are dropped (a new call, a return, an exception)
ClearLocals ==
    /\ image_feat_m' = <<>> /\ text_feat_m' = <<>>
    /\ image_feat_all' = <<>> /\ text_feat_all' = <<>>
    /\ sims' = NoSims /\ neg' = NoNeg
    /\ vl_embeddings' = <<>> /\ itm_labels' = <<>>
    /\ heap' = EmptyHeap /\ mres' = NoMask /\ mask_args' = NoMaskArgs

\* ---------------------------------------------------------------- __init__
Constructed(n, nb) ==
    /\ batch_size = n
    /\ queue_size = n * nb
    /\ online = Pretrained
    /\ teacher = CopyParams(online, DeepCopy(online))
    /\ image_queue = [c \in Rows(n * nb) |-> <<"image", 0, c>>]
    /\ text_queue = [c \in Rows(n * nb) |-> <<"text", 0, c>>]
    /\ queue_ptr = 0
    /\ temp = temp_init
    /\ calls = 0
    /\ done = {} /\ mu_count = 0 /\ enq_count = 0
    /\ result = {}

Init ==
    /\ \E n \in 1 .. MaxBatch, nb \in 1 .. MaxQueueBatches : Constructed(n, nb)
    /\ samples = NoSamples /\ rampup = <<0, 1>> /\ alpha = <<0, 1>>
    /\ FreshLocals /\ heap = EmptyHeap
    /\ pc = "idle"

\* ----------------------------------------------------------------- forward
\* lines 88-98: read the samples, ramp alpha, clamp the temperature in place
ForwardEnter ==
    /\ pc \in {"idle", "returned", "raised"}
    /\ calls < MaxCalls
    /\ \E s \in ForwardSamples(batch_size) :
         /\ samples' = s
         /\ rampup' = RampupFactor(s.epoch, s.iters, s.num_iters_per_epoch)
         /\ alpha' = EffectiveAlpha(rampup')
    /\ temp' = Clamp(temp, temp_min, temp_max)
    /\ calls' = calls + 1
    /\ done' = {} /\ mu_count' = 0 /\ enq_count' = 0
    /\ result' = {}
    /\ ClearLocals
    /\ pc' = "encode"
    /\ UNCHANGED <<batch_size, queue_size, online, teacher, image_queue,
                   text_queue, queue_ptr>>

\* lines 100-122: online encoders, tokenizer, student features
StudentEncode ==
    /\ pc = "encode"
    /\ heap' = [heap EXCEPT !["text"] =
                  TokenizeBatch(samples.text_input, batch_size)]
    /\ done' = done \cup {"image_feat", "text_feat"}
    /\ pc' = "momentum"
    /\ UNCHANGED <<self_vars, calls, samples, rampup, alpha, image_feat_m, text_feat_m,
                   image_feat_all, text_feat_all, sims, mu_count, enq_count,
                   neg, vl_embeddings, itm_labels, mres, mask_args, result>>

\* forward without the momentum update
MomentumStepSkipped ==
    /\ pc = "momentum"
    /\ pc' = "teacher"
    /\ UNCHANGED <<self_vars, calls, local_vars>>

\* line 126
MomentumStep ==
    /\ pc = "momentum"
    /\ teacher' = MomentumUpdate(online, teacher)
    /\ mu_count' = mu_count + 1
    /\ pc' = "teacher"
    /\ UNCHANGED <<batch_size, queue_size, online, temp, image_queue,
                   text_queue, queue_ptr, calls, samples, rampup, alpha, image_feat_m,
                   text_feat_m, image_feat_all, text_feat_all, sims, done,
                   enq_count, neg, vl_embeddings, itm_labels, heap, mres,
                   mask_args, result>>

\* the negatives pools built from the queues as they are after the enqueue
TeacherEncodeAfterEnqueue ==
    /\ pc = "teacher"
    /\ image_feat_m' = [b \in Rows(batch_size) |-> <<"image", calls, b>>]
    /\ text_feat_m' = [b \in Rows(batch_size) |-> <<"text", calls, b>>]
    /\ image_feat_all' =
         Cat(image_feat_m', batch_size,
             DequeueAndEnqueue(image_queue, queue_ptr, image_feat_m',
                               batch_size, queue_size).queue, queue_size)
    /\ text_feat_all' =
         Cat(text_feat_m', batch_size,
             DequeueAndEnqueue(text_queue, queue_ptr, text_feat_m',
                               batch_size, queue_size).queue, queue_size)
    /\ done' = done \cup {"image_feat_m", "text_feat_m"}
    /\ pc' = "sim"
    /\ UNCHANGED <<self_vars, calls, samples, rampup, alpha, sims, mu_count,
                   enq_count, neg, vl_embeddings, itm_labels, heap, mres,
                   mask_args, result>>

\* lines 127-145: teacher features, each concatenated with a clone of its queue
TeacherEncode ==
    /\ pc = "teacher"
    /\ image_feat_m' = [b \in Rows(batch_size) |-> <<"image", calls, b>>]
    /\ text_feat_m' = [b \in Rows(batch_size) |-> <<"text", calls, b>>]
    /\ image_feat_all' = Cat(image_feat_m', batch_size, image_queue, queue_size)
    /\ text_feat_all' = Cat(text_feat_m', batch_size, text_queue, queue_size)
    /\ done' = done \cup {"image_feat_m", "text_feat_m"}
    /\ pc' = "sim"
    /\ UNCHANGED <<self_vars, calls, samples, rampup, alpha, sims, mu_count, enq_count,
                   neg, vl_embeddings, itm_labels, heap, mres, mask_args,
                   result>>

\* lines 147-170: teacher and student similarities, soft targets, loss_ita
Similarity ==
    /\ pc = "sim"
    /\ sims' = [sim_i2t_m |-> [rows |-> "image_feat_m", cols |-> text_feat_all,
                               temp |-> temp],
                sim_t2i_m |-> [rows |-> "text_feat_m", cols |-> image_feat_all,
                               temp |-> temp],
                sim_i2t |-> [rows |-> "image_feat", cols |-> text_feat_all,
                             temp |-> temp],
                sim_t2i |-> [rows |-> "text_feat", cols |-> image_feat_all,
                             temp |-> temp]]
    /\ done' = done \cup {"sim_i2t_m", "sim_t2i_m", "sim_i2t", "sim_t2i",
                          "loss_ita"}
    /\ pc' = "enqueue"
    /\ UNCHANGED <<self_vars, calls, samples, rampup, alpha, image_feat_m, text_feat_m,
                   image_feat_all, text_feat_all, mu_count, enq_count, neg,
                   vl_embeddings, itm_labels, heap, mres, mask_args, result>>

\* one enqueue call per modality, each advancing the pointer
EnqueueTwice ==
    /\ pc = "enqueue"
    /\ LET qi == DequeueAndEnqueue(image_queue, queue_ptr, image_feat_m,
                                   batch_size, queue_size)
           qt == DequeueAndEnqueue(text_queue, qi.ptr, text_feat_m,
                                   batch_size, queue_size)
       IN  /\ image_queue' = qi.queue
           /\ text_queue' = qt.queue
           /\ queue_ptr' = qt.ptr
    /\ enq_count' = enq_count + 1
    /\ pc' = "negatives"
    /\ UNCHANGED <<batch_size, queue_size, online, teacher, temp, calls,
                   samples, rampup, alpha, image_feat_m, text_feat_m,
                   image_feat_all, text_feat_all, sims, done, mu_count, neg,
                   vl_embeddings, itm_labels, heap, mres, mask_args, result>>

\* line 172
Enqueue ==
    /\ pc = "enqueue"
    /\ LET qi == DequeueAndEnqueue(image_queue, queue_ptr, image_feat_m,
                                   batch_size, queue_size)
           qt == DequeueAndEnqueue(text_queue, queue_ptr, text_feat_m,
                                   batch_size, queue_size)
       IN  /\ image_queue' = qi.queue
           /\ text_queue' = qt.queue
           /\ queue_ptr' = qi.ptr
    /\ enq_count' = enq_count + 1
    /\ pc' = "negatives"
    /\ UNCHANGED <<batch_size, queue_size, online, teacher, temp, calls,
                   samples, rampup, alpha, image_feat_m, text_feat_m, image_feat_all,
                   text_feat_all, sims, done, mu_count, neg, vl_embeddings,
                   itm_labels, heap, mres, mask_args, result>>

\* line 185: sim[:, :bs], the number of columns kept
InBatchColumns(sim, bs) == Min(bs, Cardinality(DOMAIN sim.cols))

\* the weights with the true pairs left in
NegativeWeightsKeepDiagonal(softmaxed) == softmaxed

\* lines 185-189: softmax of the in-batch block, then fill_diagonal_(0)
NegativeWeights(softmaxed) == FillDiagonal0(softmaxed)

\* lines 191-206, no row raising: one negative image per text (weights_t2i) and
\* one negative text per image (weights_i2t)
SampleNegatives(w_i2t, w_t2i) ==
    {[image |-> ni, text |-> nt] :
        ni \in {f \in [DOMAIN w_t2i -> DOMAIN w_t2i[0]] :
                  \A b \in DOMAIN w_t2i : f[b] \in Multinomial(w_t2i[b])},
        nt \in {f \in [DOMAIN w_i2t -> DOMAIN w_i2t[0]] :
                  \A b \in DOMAIN w_i2t : f[b] \in Multinomial(w_i2t[b])}}

\* lines 175-206: positive fusion pass, then hard-negative sampling
HardNegatives ==
    /\ pc = "negatives"
    /\ \E si2t \in SoftmaxRows(batch_size, InBatchColumns(sims.sim_i2t, batch_size)),
          st2i \in SoftmaxRows(batch_size, InBatchColumns(sims.sim_t2i, batch_size)) :
         LET w_i2t == NegativeWeights(si2t)
             w_t2i == NegativeWeights(st2i)
         IN  /\ \A b \in Rows(batch_size) :
                   Multinomial(w_t2i[b]) # {} /\ Multinomial(w_i2t[b]) # {}
             /\ neg' \in SampleNegatives(w_i2t, w_t2i)
    /\ done' = done \cup {"output_pos"}
    /\ pc' = "itm"
    /\ UNCHANGED <<self_vars, calls, samples, rampup, alpha, image_feat_m,
                   text_feat_m, image_feat_all, text_feat_all, sims, mu_count,
                   enq_count, vl_embeddings, itm_labels, heap, mres, mask_args,
                   result>>

\* lines 194, 202: torch.multinomial raises on a row of weights that sums to 0;
\* the exception leaves forward, whose locals are dropped
NegativesRaise ==
    /\ pc = "negatives"
    /\ \E si2t \in SoftmaxRows(batch_size, InBatchColumns(sims.sim_i2t, batch_size)),
          st2i \in SoftmaxRows(batch_size, InBatchColumns(sims.sim_t2i, batch_size)) :
         LET w_i2t == NegativeWeights(si2t)
             w_t2i == NegativeWeights(st2i)
         IN  \E b \in Rows(batch_size) :
                Multinomial(w_t2i[b]) = {} \/ Multinomial(w_i2t[b]) = {}
    /\ samples' = NoSamples /\ rampup' = <<0, 1>> /\ alpha' = <<0, 1>>
    /\ ClearLocals
    /\ pc' = "raised"
    /\ UNCHANGED <<self_vars, calls, done, mu_count, enq_count, result>>

\* lines 208-236: the two negative groups, the ITM head's inputs and labels.
\* A fused example is [text |-> row of text_embeds, atts |-> row of
\* text.attention_mask, image |-> row of image_embeds].
ITM ==
    /\ pc = "itm"
    /\ LET n == batch_size
           id == [b \in Rows(n) |-> b]
           text_embeds_all == Cat(id, n, neg.text, n)
           text_atts_all == Cat(id, n, neg.text, n)
           image_embeds_all == Cat(neg.image, n, id, n)
           output_pos == [b \in Rows(n) |->
                            [text |-> id[b], atts |-> id[b], image |-> id[b]]]
           output_neg == [i \in Rows(2 * n) |->
                            [text |-> text_embeds_all[i],
                             atts |-> text_atts_all[i],
                             image |-> image_embeds_all[i]]]
       IN  /\ vl_embeddings' = Cat(output_pos, n, output_neg, 2 * n)
           /\ itm_labels' = Cat([b \in Rows(n) |-> 1], n,
                                [i \in Rows(2 * n) |-> 0], 2 * n)
    /\ done' = done \cup {"loss_itm"}
    /\ pc' = "mlm"
    /\ UNCHANGED <<self_vars, calls, samples, rampup, alpha, image_feat_m, text_feat_m,
                   image_feat_all, text_feat_all, sims, mu_count, enq_count,
                   neg, heap, mres, mask_args, result>>

\* the draws of mask() inside forward: all-or-nothing per tensor
Uniform(P, vals) == {[i \in P |-> v] : v \in vals}

\* lines 238-270: clone the ids twice, mask, teacher logits, loss_mlm
MaskedLM ==
    /\ pc = "mlm"
    /\ LET c1 == CloneTensor(heap, "text", "input_ids")
           c2 == CloneTensor(c1.heap, c1.ref, "labels")
           P == DOMAIN heap["text"]
       IN  \E bern \in Uniform(P, BOOLEAN), d80 \in Uniform(P, BOOLEAN),
              d50 \in Uniform(P, BOOLEAN), rw \in Uniform(P, {vocab_size - 1}) :
             /\ mres' = Mask(c2.heap, c1.ref, c2.ref, "None", bern, d80, d50, rw)
             /\ mask_args' = [targets |-> c2.ref, masked_indices |-> "None",
                               drawn |-> bern]
             /\ heap' = mres'.heap
    /\ done' = done \cup {"logits_m", "loss_mlm"}
    /\ pc' = "return"
    /\ UNCHANGED <<self_vars, calls, samples, rampup, alpha, image_feat_m, text_feat_m,
                   image_feat_all, text_feat_all, sims, mu_count, enq_count,
                   neg, vl_embeddings, itm_labels, result>>

\* lines 272-277
Return ==
    /\ pc = "return"
    /\ result' = {"loss", "loss_ita", "loss_itm", "loss_mlm"}
    /\ samples' = NoSamples /\ rampup' = <<0, 1>> /\ alpha' = <<0, 1>>
    /\ ClearLocals
    /\ pc' = "returned"
    /\ UNCHANGED <<self_vars, calls, done, mu_count, enq_count>>

\* between two calls the training loop's optimizer moves the trainable
\* parameters (the online modules and temp); the teachers are not trainable
OptimizerStep ==
    /\ pc = "returned"
    /\ \E d \in ParamDeltas :
         online' = [p \in ModelPairs |-> online[p] + d]
    /\ temp' \in TempVals
    /\ pc' = "idle"
    /\ UNCHANGED <<batch_size, queue_size, teacher, image_queue, text_queue,
                   queue_ptr, calls, local_vars>>

Next ==
    \/ ForwardEnter
    \/ StudentEncode
    \/ MomentumStep
    \/ TeacherEncode
    \/ Similarity
    \/ Enqueue
    \/ HardNegatives
    \/ NegativesRaise
    \/ ITM
    \/ MaskedLM
    \/ Return
    \/ OptimizerStep

Spec == Init /\ [][Next]_vars

\* ------------------------------------------------- mask() called on its own
TokenVals == {pad_token_id, cls_token_id} \cup Words
RandomWordVals == {0, mask_token_id, vocab_size - 1}

\* a caller holding token ids of MaskLen positions
InitMask ==
    /\ Constructed(1, 1)
    /\ samples = NoSamples /\ rampup = <<0, 1>> /\ alpha = <<0, 1>>
    /\ FreshLocals
    /\ \E ids \in [Rows(MaskLen) -> TokenVals] :
         heap = [EmptyHeap EXCEPT !["text"] = ids]
    /\ pc = "mask"

\* lines 279-318 called as forward calls it (clones of the ids), with or without
\* targets, with masked_indices supplied or drawn
MaskCall ==
    /\ pc = "mask"
    /\ LET P == DOMAIN heap["text"]
           c1 == CloneTensor(heap, "text", "input_ids")
       IN  \E want \in BOOLEAN, supplied \in BOOLEAN, m \in [P -> BOOLEAN],
              d80 \in [P -> BOOLEAN], d50 \in [P -> BOOLEAN],
              rw \in [P -> RandomWordVals] :
             LET c2 == IF want THEN CloneTensor(c1.heap, c1.ref, "labels")
                       ELSE [heap |-> c1.heap, ref |-> "None"]
                 h == IF supplied
                      THEN [c2.heap EXCEPT !["masked_indices"] = m]
                      ELSE c2.heap
                 mi == IF supplied THEN "masked_indices" ELSE "None"
             IN  /\ mres' = Mask(h, c1.ref, c2.ref, mi, m, d80, d50, rw)
                 /\ mask_args' = [targets |-> c2.ref, masked_indices |-> mi,
                                   drawn |-> m]
                 /\ heap' = mres'.heap
    /\ pc' = "mask_done"
    /\ UNCHANGED <<self_vars, calls, samples, rampup, alpha, image_feat_m,
                   text_feat_m, image_feat_all, text_feat_all, sims, done,
                   mu_count, enq_count, neg, vl_embeddings, itm_labels, result>>

NextMask == MaskCall

SpecMask == InitMask /\ [][NextMask]_vars

\* --------------------------------------------------- the ramp-up on its own
RampSamples ==
    {[epoch |-> e, iters |-> i, num_iters_per_epoch |-> n,
      text_input |-> <<>>] :
        e \in 0 .. MaxEpoch, i \in 0 .. MaxIters, n \in 1 .. MaxItersPerEpoch}

InitRampup ==
    /\ Constructed(1, 1)
    /\ samples \in RampSamples
    /\ rampup = <<0, 1>> /\ alpha = <<0, 1>>
    /\ FreshLocals /\ heap = EmptyHeap
    /\ pc = "ramp"

\* lines 84-85 and 91-95
RampupCall ==
    /\ pc = "ramp"
    /\ rampup' = RampupFactor(samples.epoch, samples.iters,
                              samples.num_iters_per_epoch)
    /\ alpha' = EffectiveAlpha(rampup')
    /\ pc' = "ramp_done"
    /\ UNCHANGED <<self_vars, calls, samples, image_feat_m, text_feat_m,
                   image_feat_all, text_feat_all, sims, done, mu_count,
                   enq_count, neg, vl_embeddings, itm_labels, heap, mres,
                   mask_args, result>>

NextRampup == RampupCall

SpecRampup == InitRampup /\ [][NextRampup]_vars

\* ================================================================== claims
\* forward calls whose _dequeue_and_enqueue has run
Enqueued == IF calls = 0 THEN 0 ELSE calls - 1 + enq_count

PastEnqueue == {"negatives", "itm", "mlm", "return", "returned", "raised"}
WithSims == {"enqueue", "negatives", "itm", "mlm", "return"}
SimNames == {"sim_i2t_m", "sim_t2i_m", "sim_i2t", "sim_t2i"}
TeacherOutputs == {"image_feat_m", "text_feat_m", "sim_i2t_m", "sim_t2i_m",
                   "logits_m"}

\* C1: with capacity C divisible by the batch size B, after k forward calls
\* (each enqueuing exactly once) the pointer is (k * B) mod C: a multiple of B
\* in [0, C), and 0 exactly when k is a multiple of C / B.
C1_PointerAdvances ==
    LET k == Enqueued
        per == queue_size \div batch_size
    IN  /\ queue_size % batch_size = 0
        /\ (pc \in PastEnqueue => enq_count = 1)
        /\ queue_ptr = (k * batch_size) % queue_size
        /\ queue_ptr \in 0 .. (queue_size - 1)
        /\ queue_ptr % batch_size = 0
        /\ (queue_ptr = 0) <=> (k % per = 0)

\* the pointer is back at 0 after C / B > 1 calls
C1_Witness ==
    /\ queue_size > batch_size
    /\ calls = queue_size \div batch_size
    /\ enq_count = 1
    /\ queue_ptr = 0

\* C2: after k forward calls each queue holds, once each, the teacher
\* embeddings of the most recent min(k, C/B) batches and otherwise its initial
\* columns; the queue is written once per call, after the four similarities;
\* the similarities are taken against the current teacher embeddings followed
\* by the queue as it was before this call's enqueue, so the current batch is
\* in the pool exactly once.
C2_QueueHoldsRecentBatches ==
    LET k == Enqueued
        B == batch_size
        C == queue_size
        r == Min(k, C \div B)
        recent == (k - r + 1) .. k
        Holds(q, m) ==
            /\ DOMAIN q = Rows(C)
            /\ \A j \in recent, b \in Rows(B) :
                  Cardinality({c \in Rows(C) : q[c] = <<m, j, b>>}) = 1
            /\ \A c \in Rows(C) :
                  \/ q[c] = <<m, 0, c>>
                  \/ q[c][1] = m /\ q[c][2] \in recent /\ q[c][3] \in Rows(B)
        PoolOk(pool, q, m) ==
            /\ DOMAIN pool = Rows(B + C)
            /\ \A b \in Rows(B) : pool[b] = <<m, calls, b>>
            /\ \A c \in Rows(C) :
                  /\ pool[B + c][2] < calls
                  /\ pool[B + c] = q[c] \/ q[c][2] = calls
    IN  /\ Holds(image_queue, "image")
        /\ Holds(text_queue, "text")
        /\ enq_count \in {0, 1}
        /\ (enq_count = 1 => SimNames \subseteq done)
        /\ (pc \in PastEnqueue => enq_count = 1)
        /\ (pc \in WithSims =>
              /\ sims.sim_i2t_m.cols = text_feat_all
              /\ sims.sim_i2t.cols = text_feat_all
              /\ sims.sim_t2i_m.cols = image_feat_all
              /\ sims.sim_t2i.cols = image_feat_all
              /\ PoolOk(image_feat_all, image_queue, "image")
              /\ PoolOk(text_feat_all, text_queue, "text"))

\* the oldest batch has been overwritten and the pool of the running call
\* still shows it
C2_Witness ==
    /\ pc = "negatives"
    /\ calls = (queue_size \div batch_size) + 1
    /\ batch_size > 1
    /\ image_feat_all[batch_size] = <<"image", 1, 0>>
    /\ image_queue[0] = <<"image", calls, 0>>

\* C3: in mask(), a position holding the padding id or the cls id is never
\* masked, whatever was drawn or supplied for it: its returned id is its input
\* id and, when labels are requested, its label is -100.
C3_SpecialNeverMasked ==
    pc = "mask_done" =>
        \A i \in DOMAIN heap["text"] :
            heap["text"][i] \in {pad_token_id, cls_token_id} =>
                /\ ~heap[mres.masked_indices][i]
                /\ heap[mres.input_ids][i] = heap["text"][i]
                /\ (mres.targets # "None" =>
                      heap[mres.targets][i] = ignore_index)

\* the caller supplied TRUE at a padding and at a cls position, with labels
C3_Witness ==
    /\ pc = "mask_done"
    /\ mask_args.masked_indices # "None"
    /\ mres.targets # "None"
    /\ \E i, j \in DOMAIN heap["text"] :
          /\ heap["text"][i] = pad_token_id /\ mask_args.drawn[i]
          /\ heap["text"][j] = cls_token_id /\ mask_args.drawn[j]

\* C4: in mask(), the positions replaced by the mask token and those replaced
\* by a random word are disjoint subsets of the masked positions; a masked
\* position ends as the mask token (replaced), a random id in [0, vocab_size)
\* (random) or its original id (neither); an unmasked position keeps its id.
C4_DisjointReplacement ==
    pc = "mask_done" =>
        \A i \in DOMAIN heap["text"] :
            LET masked == heap[mres.masked_indices][i]
                rep == mres.indices_replaced[i]
                rnd == mres.indices_random[i]
                out == heap[mres.input_ids][i]
            IN  /\ ~(rep /\ rnd)
                /\ (rep => masked) /\ (rnd => masked)
                /\ (rep => out = mask_token_id)
                /\ (rnd => out \in 0 .. (vocab_size - 1))
                /\ (masked /\ ~rep /\ ~rnd => out = heap["text"][i])
                /\ (~masked => out = heap["text"][i])

\* one position got the mask token, another a random word
C4_Witness ==
    /\ pc = "mask_done"
    /\ \E i, j \in DOMAIN heap["text"] :
          /\ mres.indices_replaced[i] /\ heap[mres.input_ids][i] = mask_token_id
          /\ mres.indices_random[j] /\ heap[mres.input_ids][j] = vocab_size - 1

\* C5: when mask() returns inside forward, the label is -100 exactly where the
\* final mask is false and the original token id where it is true; labels,
\* corrupted ids and tokenized ids are three tensors and the tokenized ids are
\* unchanged.
C5_LabelsKeepOriginal ==
    pc = "return" =>
        /\ mres.targets # "None"
        /\ Cardinality({"text", mres.input_ids, mres.targets}) = 3
        /\ heap["text"] = TokenizeBatch(samples.text_input, batch_size)
        /\ \A i \in DOMAIN heap["text"] :
              LET masked == heap[mres.masked_indices][i]
                  label == heap[mres.targets][i]
              IN  /\ (label = ignore_index) <=> ~masked
                  /\ (masked => label = heap["text"][i])

\* a masked position whose id became the mask token while its label stayed
C5_Witness ==
    /\ pc = "return"
    /\ \E i \in DOMAIN heap["text"] :
          /\ heap[mres.masked_indices][i]
          /\ heap[mres.input_ids][i] = mask_token_id
          /\ heap[mres.targets][i] = heap["text"][i]
          /\ heap["text"][i] \in Words

\* C6: for B >= 2 the ITM head sees 3 * B fused examples: text b with image b
\* labelled 1; text b with a sampled image labelled 0; image b with a sampled
\* text and that text's attention mask labelled 0; a sampled index is in [0, B)
\* and is not b.
C6_ItmExamples ==
    LET B == batch_size
    IN  /\ (pc \in {"itm", "mlm", "return"} /\ B >= 2 =>
              \A b \in Rows(B) :
                  /\ neg.image[b] \in Rows(B) \ {b}
                  /\ neg.text[b] \in Rows(B) \ {b})
        /\ (pc \in {"mlm", "return"} /\ B >= 2 =>
              /\ DOMAIN vl_embeddings = Rows(3 * B)
              /\ DOMAIN itm_labels = Rows(3 * B)
              /\ \A b \in Rows(B) :
                    /\ vl_embeddings[b] = [text |-> b, atts |-> b, image |-> b]
                    /\ itm_labels[b] = 1
                    /\ vl_embeddings[B + b] =
                         [text |-> b, atts |-> b, image |-> neg.image[b]]
                    /\ itm_labels[B + b] = 0
                    /\ vl_embeddings[2 * B + b] =
                         [text |-> neg.text[b], atts |-> neg.text[b], image |-> b]
                    /\ itm_labels[2 * B + b] = 0)

\* a batch of three where the sampler had a choice
C6_Witness ==
    /\ pc = "mlm"
    /\ batch_size = 3
    /\ neg.image[0] = 2 /\ neg.image[1] = 0 /\ neg.text[0] = 1
    /\ vl_embeddings[3].image = 2

\* C7: for epoch, iters >= 0 and N >= 1, with t = epoch * N + iters, the ramp
\* factor is min(1, t / (2N)): 0 at t = 0, exactly 1 when t >= 2N, in [0, 1],
\* non-decreasing in t; forward's alpha is alpha times it, in [0, alpha].
C7_Rampup ==
    pc = "ramp_done" =>
        LET N == samples.num_iters_per_epoch
            t == samples.epoch * N + samples.iters
        IN  /\ rampup[2] > 0
            /\ rampup[1] * (2 * N) = Min(t, 2 * N) * rampup[2]
            /\ (t = 0 => rampup[1] = 0)
            /\ (t >= 2 * N => rampup = <<1, 1>>)
            /\ 0 <= rampup[1] /\ rampup[1] <= rampup[2]
            /\ \A s \in RampSamples :
                  (s.num_iters_per_epoch = N /\ s.epoch * N + s.iters >= t) =>
                      LET r == RampupFactor(s.epoch, s.iters, N)
                      IN  r[1] * rampup[2] >= rampup[1] * r[2]
            /\ alpha[2] > 0
            /\ alpha[1] * rampup[2] = alpha_cfg * rampup[1] * alpha[2]
            /\ 0 <= alpha[1] /\ alpha[1] <= alpha_cfg * alpha[2]

\* an input past the second epoch, where the factor is capped
C7_Witness ==
    /\ pc = "ramp_done"
    /\ samples.epoch * samples.num_iters_per_epoch + samples.iters
         > 2 * samples.num_iters_per_epoch
    /\ rampup = <<1, 1>>
    /\ alpha[1] = alpha_cfg * alpha[2]

\* C8: entering forward clamps the stored temperature into [0.001, 0.5]
\* whatever it was, and all four similarities of the call divide by that stored
\* value.
C8_State ==
    /\ (calls > 0 /\ pc # "idle" => temp \in temp_min .. temp_max)
    /\ (pc \in WithSims =>
          \A n \in SimNames : sims[n].temp = temp)

C8_TemperatureClamped ==
    /\ []C8_State
    /\ [][(pc \in {"idle", "returned", "raised"} /\ pc' = "encode") =>
            temp' = (IF temp < temp_min THEN temp_min
                     ELSE IF temp > temp_max THEN temp_max ELSE temp)]_vars

\* a trained value above 0.5 was clamped to 0.5 and used
C8_Witness ==
    /\ pc = "enqueue"
    /\ temp = temp_max
    /\ sims.sim_i2t.temp = temp_max
    /\ sims.sim_t2i_m.temp = temp_max

\* C9: after construction every teacher equals its online module; in a forward
\* call the momentum update of the four pairs runs once, before any teacher
\* output, and no other step changes a teacher.
C9_State ==
    /\ DOMAIN teacher = ModelPairs
    /\ (calls = 0 => \A p \in ModelPairs : teacher[p] = online[p])
    /\ mu_count \in {0, 1}
    /\ (done \cap TeacherOutputs # {} => mu_count = 1)
    /\ (pc \in {"returned", "raised"} => mu_count = 1)

C9_MomentumOnceBeforeTeacher ==
    /\ []C9_State
    /\ [][/\ (teacher' # teacher => pc = "momentum")
          /\ (pc = "momentum" =>
                /\ mu_count' = mu_count + 1
                /\ \A p \in ModelPairs :
                      teacher'[p] = (teacher[p] * momentum
                                     + online[p] * (1000 - momentum)) \div 1000)
         ]_vars

\* the teacher logits of a call whose update moved the teachers
C9_Witness ==
    /\ pc = "return"
    /\ "logits_m" \in done
    /\ mu_count = 1
    /\ \A p \in ModelPairs : teacher[p] # online[p] /\ teacher[p] # Pretrained[p]

\* C10: with batch size 1 forward raises at negative sampling: no negative is
\* selected, no ITM or MLM step runs and no loss mapping is returned.
C10_BatchOfOneRaises ==
    batch_size = 1 =>
        /\ pc \notin {"itm", "mlm", "return", "returned"}
        /\ neg = NoNeg
        /\ result = {}
        /\ (pc \in PastEnqueue \ {"negatives"} => pc = "raised")

\* a batch of one has raised
C10_Witness ==
    /\ batch_size = 1
    /\ pc = "raised"
    /\ calls = 1
    /\ result = {}

====
